---- MODULE Spec2Model ----
(***************************************************************************)
(* ElementAnimation (Source/Core/ElementAnimation.cpp): one keyframe       *)
(* timeline for one property.  The model has the timeline's fields as      *)
(* variables, the constructor as Init and AddKey / UpdateAndGetProperty as *)
(* actions.                                                                *)
(*                                                                         *)
(* Times (world time, duration, key times) are integers counting half      *)
(* units: 2 ticks are 1.0.  Blend factors and float values are exact       *)
(* rationals [n, d] in lowest terms.                                       *)
(***************************************************************************)
EXTENDS Integers, Sequences, FiniteSets, TLC

VARIABLES
    property_unit,              \* Property::Unit of the timeline
    valid,                      \* set once by the constructor
    duration,                   \* of one iteration, in ticks
    num_iterations,             \* -1 for infinity
    alternate_direction,
    keys,                       \* std::vector<AnimationKey>
    last_update_world_time,
    time_since_iteration_start,
    current_iteration,
    reverse_direction,
    animation_complete,
    call,                       \* the call that produced this state, with its arguments
    added,                      \* what the last AddKey returned
    result,                     \* what the last UpdateAndGetProperty returned
    queries,                    \* world times of the effective updates so far
    pair,                       \* two transforms handed to PrepareTransformPair
    walk,                       \* where the last PrepareTransforms stopped
    bracket                     \* t, key0 and key1 of the last effective update

config   == <<property_unit, valid, duration, num_iterations, alternate_direction>>
playback == <<last_update_world_time, time_since_iteration_start,
              current_iteration, reverse_direction, animation_complete>>
vars     == <<property_unit, valid, duration, num_iterations, alternate_direction,
              keys, last_update_world_time, time_since_iteration_start,
              current_iteration, reverse_direction, animation_complete,
              call, added, result, queries, pair, walk, bracket>>

----------------------------------------------------------------------------
(* Bounds *)

MaxKeys == 3
MaxWorldTime == 4
MaxPrims == 2
MaxRuns == 2

----------------------------------------------------------------------------
(* Rationals *)

RECURSIVE GCD(_, _)
GCD(a, b) == IF b = 0 THEN a ELSE GCD(b, a % b)

Abs(x) == IF x < 0 THEN -x ELSE x

\* n/d in lowest terms, d > 0
Rat(n, d) ==
    LET g == GCD(Abs(n), d)
    IN  [n |-> n \div g, d |-> d \div g]

Zero == Rat(0, 1)
One  == Rat(1, 1)

----------------------------------------------------------------------------
(* Variant and Property *)

\* A Variant: its type tag and its payload.  FLOAT and INT: the number
\* num/den.  COLOURB: one colour channel, num in 0..255.  TRANSFORMREF: the
\* primitives of the Transform it refers to.  STRING: a text that is no number.
Variant(type, num, den, prims) ==
    [type |-> type, num |-> num, den |-> den, prims |-> prims]

FloatVariant(num, den) == Variant("FLOAT", Rat(num, den).n, Rat(num, den).d, <<>>)
IntVariant(i)          == Variant("INT", i, 1, <<>>)
ColourVariant(c)       == Variant("COLOURB", c, 1, <<>>)
StringVariant          == Variant("STRING", 0, 1, <<>>)
TransformVariant(p)    == Variant("TRANSFORMREF", 0, 1, p)
NoneVariant            == Variant("NONE", 0, 1, <<>>)

MakeProperty(unit, value) == [unit |-> unit, value |-> value]

\* Property result; as default-constructed
EmptyProperty == MakeProperty("UNKNOWN", NoneVariant)

IsEmpty(p) == p.value.type = "NONE"

\* A call of the constructor, of AddKey(time, property, element, tween) or of
\* UpdateAndGetProperty(world_time); resolves stands for the element.
Call(op, time, property, tween, resolves, world_time) ==
    [op |-> op, time |-> time, property |-> property, tween |-> tween,
     resolves |-> resolves, world_time |-> world_time]

----------------------------------------------------------------------------
(* Transform primitives *)

\* A primitive: its kind (the index of the variant) and its value, abstracted
\* to what the reconciliation reads: "id" the identity of its kind, "sing" a
\* value whose matrix is not invertible (a scale by zero), "reg" any other.
Primitive(kind, val) == [kind |-> kind, val |-> val]

\* The generic form a primitive kind widens to, "None" when it has none.
GetGenericType(kind) ==
    CASE kind \in {"ScaleX", "ScaleY", "Scale3D"}  -> "Scale3D"
      [] kind \in {"TranslateX", "Translate3D"}    -> "Translate3D"
      [] OTHER                                     -> "None"

\* Primitive::TryConvertToMatchingGenericType(p0, p1): on success both are
\* of their common generic kind; on failure neither is touched.
TryConvertToMatchingGenericType(p0, p1) ==
    LET c0 == GetGenericType(p0.kind)
        c1 == GetGenericType(p1.kind)
    IN  IF p0.kind = p1.kind
        THEN [ok |-> TRUE, p0 |-> p0, p1 |-> p1]
        ELSE IF c0 = c1 /\ c0 # "None"
        THEN [ok |-> TRUE, p0 |-> Primitive(c0, p0.val), p1 |-> Primitive(c1, p1.val)]
        ELSE [ok |-> FALSE, p0 |-> p0, p1 |-> p1]

\* Primitive::SetIdentity
SetIdentity(p) == Primitive(p.kind, "id")

\* DecomposedMatrix4::Decompose(m) of the product of the primitives' matrices:
\* fails exactly when the product is not invertible, that is when one factor
\* is not.
Decompose(prims) == \A i \in 1..Len(prims) : prims[i].val # "sing"

\* CombineAndDecompose(t, e): the transform after the call and what it returns
CombineAndDecompose(prims) ==
    IF ~Decompose(prims)
    THEN [ok |-> FALSE, prims |-> prims]
    ELSE [ok |-> TRUE, prims |-> <<Primitive("DecomposedMatrix4", "reg")>>]

\* enum class PrepareTransformResult
Unchanged == 0
ChangedT0 == 1
ChangedT1 == 2
ChangedT0andT1 == 3
Invalid == 4

\* (int&)result |= flag, for flag Unchanged, ChangedT0 or ChangedT1
OrFlags(res, flag) ==
    IF flag = Unchanged \/ res = flag \/ res = ChangedT0andT1 THEN res ELSE res + flag

\* s with s[i] replaced, i counted from 0
SetAt(s, i, p) == [s EXCEPT ![i + 1] = p]

\* std::vector::push_back(p) in the place of the insertion at position i
InsertAtEnd(s, i, p) == Append(s, p)

\* std::vector::insert(begin() + i, p), i counted from 0
InsertAt(s, i, p) == SubSeq(s, 1, i) \o <<p>> \o SubSeq(s, i + 1, Len(s))

\* PrepareTransformPair, the loop over positions of two sequences of the same
\* size, from position i on.
\* The result flags after position i was converted: c is what the conversion
\* returned.
ConvertedFlags(res, p0_type, p1_type, c) ==
    OrFlags(OrFlags(res, IF c.p0.kind # p0_type THEN ChangedT0 ELSE Unchanged),
            IF c.p1.kind # p1_type THEN ChangedT1 ELSE Unchanged)

RECURSIVE SamePrimitives(_, _, _, _)

\* Position i, where the kinds differ: c is what the conversion returned.
SamePrimitivesConvert(prims0, prims1, i, res, c) ==
    IF ~c.ok
    THEN [same_primitives |-> FALSE, prims0 |-> prims0, prims1 |-> prims1, result |-> res]
    ELSE SamePrimitives(SetAt(prims0, i, c.p0), SetAt(prims1, i, c.p1), i + 1,
                        ConvertedFlags(res, prims0[i + 1].kind, prims1[i + 1].kind, c))

SamePrimitives(prims0, prims1, i, res) ==
    IF i >= Len(prims0)
    THEN [same_primitives |-> TRUE, prims0 |-> prims0, prims1 |-> prims1, result |-> res]
    ELSE IF prims0[i + 1].kind = prims1[i + 1].kind
    THEN SamePrimitives(prims0, prims1, i + 1, res)
    ELSE SamePrimitivesConvert(prims0, prims1, i, res,
             TryConvertToMatchingGenericType(prims0[i + 1], prims1[i + 1]))

\* PrepareTransformPair, the inner loop: look for a primitive of big, from
\* i_big on, that small[i_small] matches exactly or in generic form.  On a
\* match i_big is the matching index.
RECURSIVE ScanBig(_, _, _, _, _)

\* big[i_big] is of another kind than small[i_small]: c is what the conversion
\* of the two returned.
ScanBigConvert(small, big, i_small, i_big, changed_big, c) ==
    IF c.ok
    THEN [match_success |-> TRUE,
          small |-> SetAt(small, i_small, c.p0),
          big |-> SetAt(big, i_big, c.p1),
          i_big |-> i_big,
          changed_big |-> (changed_big \/ c.p1.kind # big[i_big + 1].kind)]
    ELSE ScanBig(small, big, i_small, i_big + 1, changed_big)

ScanBig(small, big, i_small, i_big, changed_big) ==
    IF i_big >= Len(big)
    THEN [match_success |-> FALSE, small |-> small, big |-> big,
          i_big |-> i_big, changed_big |-> changed_big]
    ELSE IF small[i_small + 1].kind = big[i_big + 1].kind
    THEN [match_success |-> TRUE, small |-> small, big |-> big,
          i_big |-> i_big, changed_big |-> changed_big]
    ELSE ScanBigConvert(small, big, i_small, i_big, changed_big,
             TryConvertToMatchingGenericType(small[i_small + 1], big[i_big + 1]))

\* PrepareTransformPair, the outer loop over the small set, from i_small on.
RECURSIVE MatchSmall(_, _, _, _, _, _)

\* s is what the scan of big for small[i_small] returned.
MatchSmallScanned(i_small, matching_indices, s) ==
    IF ~s.match_success
    THEN [match_success |-> FALSE, small |-> s.small, big |-> s.big,
          matching_indices |-> matching_indices, changed_big |-> s.changed_big]
    ELSE MatchSmall(s.small, s.big, i_small + 1, s.i_big + 1,
                    Append(matching_indices, s.i_big), s.changed_big)

MatchSmall(small, big, i_small, i_big, matching_indices, changed_big) ==
    IF i_small >= Len(small)
    THEN [match_success |-> TRUE, small |-> small, big |-> big,
          matching_indices |-> matching_indices, changed_big |-> changed_big]
    ELSE MatchSmallScanned(i_small, matching_indices,
                           ScanBig(small, big, i_small, i_big, changed_big))

\* PrepareTransformPair, the insertion of big[i .. match_index - 1], set to
\* identity, into small at the same positions.
RECURSIVE InsertRange(_, _, _, _)
InsertRange(small, big, i, match_index) ==
    IF i >= match_index
    THEN small
    ELSE InsertRange(InsertAt(small, i, SetIdentity(big[i + 1])), big, i + 1, match_index)

\* PrepareTransformPair, the loop over matching_indices from its k-th entry on.
RECURSIVE InsertMissing(_, _, _, _, _)
InsertMissing(small, big, matching_indices, k, i0) ==
    IF k > Len(matching_indices)
    THEN small
    ELSE InsertMissing(InsertRange(small, big, i0, matching_indices[k]), big,
                       matching_indices, k + 1, matching_indices[k] + 1)

\* PrepareTransformPair, the fallback without the tests of what
\* CombineAndDecompose returns
DecomposePairUnchecked(prims0, prims1) ==
    [t0 |-> CombineAndDecompose(prims0).prims,
     t1 |-> CombineAndDecompose(prims1).prims, result |-> ChangedT0andT1]

\* PrepareTransformPair, the fallback: decompose t0, then t1.
DecomposePair(prims0, prims1) ==
    IF ~CombineAndDecompose(prims0).ok
    THEN [t0 |-> prims0, t1 |-> prims1, result |-> Invalid]
    ELSE IF ~CombineAndDecompose(prims1).ok
    THEN [t0 |-> CombineAndDecompose(prims0).prims, t1 |-> prims1, result |-> Invalid]
    ELSE [t0 |-> CombineAndDecompose(prims0).prims,
          t1 |-> CombineAndDecompose(prims1).prims, result |-> ChangedT0andT1]

\* PrepareTransformPair on two sequences of the same size, without the return
\* after the loop over the positions
SameSizePairDecomposed(e) == DecomposePair(e.prims0, e.prims1)

\* PrepareTransformPair on two sequences of the same size: e is what the loop
\* over the positions returned.
SameSizePair(e) ==
    IF e.same_primitives
    THEN [t0 |-> e.prims0, t1 |-> e.prims1, result |-> e.result]
    ELSE DecomposePair(e.prims0, e.prims1)

\* The pair <<t0, t1>> from the small and the big set
OrderPair(prims0_smallest, small, big, res) ==
    IF prims0_smallest
    THEN [t0 |-> small, t1 |-> big, result |-> res]
    ELSE [t0 |-> big, t1 |-> small, result |-> res]

\* PrepareTransformPair on two sequences of different sizes: m is what the
\* matching of the small set against the big set returned.
DifferentSizePair(prims0_smallest, m) ==
    IF m.match_success
    THEN OrderPair(prims0_smallest,
                   InsertMissing(m.small, m.big,
                                 Append(m.matching_indices, Len(m.big)), 1, 0),
                   m.big,
                   IF m.changed_big THEN ChangedT0andT1
                   ELSE IF prims0_smallest THEN ChangedT0 ELSE ChangedT1)
    ELSE IF prims0_smallest
    THEN DecomposePair(m.small, m.big)
    ELSE DecomposePair(m.big, m.small)

\* PrepareTransformPair(t0, t1, element): both transforms after the call, and
\* what it returns.
PrepareTransformPair(t0, t1) ==
    IF Len(t0) = Len(t1)
    THEN SameSizePair(SamePrimitives(t0, t1, 0, Unchanged))
    ELSE IF Len(t0) < Len(t1)
    THEN DifferentSizePair(TRUE, MatchSmall(t0, t1, 0, 0, <<>>, FALSE))
    ELSE DifferentSizePair(FALSE, MatchSmall(t1, t0, 0, 0, <<>>, FALSE))

\* PrepareTransforms when it returns: keys.size(), its locals, and invalid:
\* it returns from inside the loop, on a pair that PrepareTransformPair found
\* Invalid
Walk(ks, i, count_iterations, max_iterations, invalid) ==
    [size |-> Len(ks), i |-> i, count_iterations |-> count_iterations,
     max_iterations |-> max_iterations, invalid |-> invalid]

\* PrepareTransforms was not called
NoWalk == Walk(<<>>, 0, -1, 0, FALSE)

\* PrepareTransforms, the loop from pair (i - 1, i) on, i counted from 0.
\* The keys after the call and what it returns.
RECURSIVE PrepareTransformsLoop(_, _, _, _)

\* The keys with the transforms of keys i - 1 and i as the pair r has them
WithPair(ks, i, r) ==
    [ks EXCEPT ![i].value.prims = r.t0, ![i + 1].value.prims = r.t1]

\* One pass of the loop: r is what PrepareTransformPair returned for (i - 1, i).
PrepareTransformsStep(ks, i, count_iterations, max_iterations, r) ==
    IF r.result = Invalid
    THEN [ok |-> FALSE, keys |-> WithPair(ks, i, r),
          walk |-> Walk(ks, i, count_iterations, max_iterations, TRUE)]
    ELSE PrepareTransformsLoop(
             WithPair(ks, i, r),
             IF (r.result = ChangedT0 \/ r.result = ChangedT0andT1) /\ i > 1
             THEN i - 1 ELSE i + 1,
             count_iterations + 1, max_iterations)

PrepareTransformsLoop(ks, i, count_iterations, max_iterations) ==
    IF ~(i < Len(ks) /\ count_iterations < max_iterations)
    THEN [ok |-> count_iterations < max_iterations, keys |-> ks,
          walk |-> Walk(ks, i, count_iterations, max_iterations, FALSE)]
    ELSE PrepareTransformsStep(ks, i, count_iterations, max_iterations,
             PrepareTransformPair(ks[i].value.prims, ks[i + 1].value.prims))

\* PrepareTransforms with a bound of one pass for each earlier pair
PrepareTransformsShortBound(ks, start_index) ==
    PrepareTransformsLoop(ks, IF start_index < 1 THEN 1 ELSE start_index,
                          -1, Len(ks) - 2)

PrepareTransforms(ks, start_index) ==
    PrepareTransformsLoop(ks, IF start_index < 1 THEN 1 ELSE start_index,
                          -1, 3 * Len(ks))

----------------------------------------------------------------------------
(* Value interpolation *)

\* Tween::operator()(alpha): the easing curve of the key interpolated into.
ApplyTween(tween, alpha) ==
    CASE tween = "Linear"      -> alpha
      [] tween = "QuadraticIn" -> Rat(alpha.n * alpha.n, alpha.d * alpha.d)

\* ColourToLinearSpace, one channel: sqrt(c / 255), for the channel values
\* whose root is exact.
ColourToLinearSpace(c) == CHOOSE r \in 0..1 : r * r * 255 = c

\* ColourFromLinearSpace, one channel, of the linear value n/d:
\* (byte)Clamp(c * c * 255, 0, 255)
ColourFromLinearSpace(n, d) ==
    LET x == (n * n * 255) \div (d * d)
    IN  IF x < 0 THEN 0 ELSE IF x > 255 THEN 255 ELSE x

\* Primitive::InterpolateWith(other, alpha): fails when the kinds differ.
InterpolateWith(p, other, alpha) ==
    IF p.kind # other.kind
    THEN [ok |-> FALSE, p |-> p]
    ELSE [ok |-> TRUE,
          p |-> Primitive(p.kind,
                          IF alpha = Zero \/ p.val = other.val THEN p.val
                          ELSE IF alpha = One THEN other.val
                          ELSE "mix")]

\* InterpolateValues, the loop over the primitives from position i on; t is
\* the transform built so far.
RECURSIVE InterpolatePrimitives(_, _, _, _, _)
InterpolatePrimitives(p0, p1, alpha, i, t) ==
    IF i >= Len(p0)
    THEN [ok |-> TRUE, t |-> t]
    ELSE
        LET r == InterpolateWith(p0[i + 1], p1[i + 1], alpha)
        IN  IF ~r.ok
            THEN [ok |-> FALSE, t |-> t]
            ELSE InterpolatePrimitives(p0, p1, alpha, i + 1, Append(t, r.p))

\* InterpolateValues returning the transform built so far when a primitive
\* fails to interpolate
InterpolateValuesPartial(v0, v1, alpha) ==
    IF v0.type # v1.type
    THEN v0
    ELSE CASE v0.type = "FLOAT" ->
                 FloatVariant((alpha.d - alpha.n) * v0.num * v1.den
                                  + alpha.n * v1.num * v0.den,
                              alpha.d * v0.den * v1.den)
           [] v0.type = "COLOURB" ->
                 ColourVariant(ColourFromLinearSpace(
                     (alpha.d - alpha.n) * ColourToLinearSpace(v0.num)
                         + alpha.n * ColourToLinearSpace(v1.num),
                     alpha.d))
           [] v0.type = "TRANSFORMREF" ->
                 IF Len(v0.prims) # Len(v1.prims)
                 THEN v0
                 ELSE TransformVariant(
                          InterpolatePrimitives(v0.prims, v1.prims, alpha, 0, <<>>).t)
           [] OTHER -> v0

InterpolateValues(v0, v1, alpha) ==
    IF v0.type # v1.type
    THEN v0
    ELSE CASE v0.type = "FLOAT" ->
                 FloatVariant((alpha.d - alpha.n) * v0.num * v1.den
                                  + alpha.n * v1.num * v0.den,
                              alpha.d * v0.den * v1.den)
           [] v0.type = "COLOURB" ->
                 ColourVariant(ColourFromLinearSpace(
                     (alpha.d - alpha.n) * ColourToLinearSpace(v0.num)
                         + alpha.n * ColourToLinearSpace(v1.num),
                     alpha.d))
           [] v0.type = "TRANSFORMREF" ->
                 IF Len(v0.prims) # Len(v1.prims)
                 THEN v0
                 ELSE LET r == InterpolatePrimitives(v0.prims, v1.prims, alpha, 0, <<>>)
                      IN  IF r.ok THEN TransformVariant(r.t) ELSE v0
           [] OTHER -> v0

----------------------------------------------------------------------------
(* The timeline *)

AnimationKey(time, value, tween) == [time |-> time, value |-> value, tween |-> tween]

\* Variant::GetInto(float&): an INT converts, a text that is no number does not.
GetInto(value) == value.type = "INT"

\* TryMakeUnitValid(value): the value after the call and what it returns
TryMakeUnitValid(value) ==
    IF value.type \in {"FLOAT", "COLOURB", "TRANSFORMREF"}
    THEN [ok |-> TRUE, value |-> value]
    ELSE IF GetInto(value)
    THEN [ok |-> TRUE, value |-> FloatVariant(value.num, value.den)]
    ELSE [ok |-> FALSE, value |-> value]

\* ElementAnimation::ElementAnimation
Construct(current_value, start_world_time, a_duration, a_num_iterations, a_alternate) ==
    /\ property_unit = current_value.unit
    /\ duration = a_duration
    /\ num_iterations = a_num_iterations
    /\ alternate_direction = a_alternate
    /\ keys = <<AnimationKey(0, TryMakeUnitValid(current_value.value).value, "Linear")>>
    /\ last_update_world_time = start_world_time
    /\ time_since_iteration_start = 0
    /\ current_iteration = 0
    /\ reverse_direction = FALSE
    /\ animation_complete = FALSE
    /\ valid = TryMakeUnitValid(current_value.value).ok
    /\ call = Call("Construct", 0, current_value, "Linear", TRUE, start_world_time)
    /\ added = FALSE
    /\ result = EmptyProperty
    /\ queries = <<>>
    /\ walk = NoWalk
    /\ bracket = [t |-> 0, key0 |-> 0, key1 |-> 0]

\* The sequence without its last two elements
pop_back_twice(s) == SubSeq(s, 1, Len(s) - 2)

\* std::vector::pop_back
pop_back(s) == SubSeq(s, 1, Len(s) - 1)

\* AddKey after the push_back: pushed is the key sequence with the new key,
\* made what TryMakeUnitValid returned for its value.  The key sequence
\* before the pop_back and the result.
AddKeyPushed(pushed, made, unit, resolves) ==
    IF made /\ unit = "TRANSFORM"
    THEN IF resolves
         THEN PrepareTransforms(pushed, Len(pushed) - 1)
         ELSE [ok |-> FALSE, keys |-> pushed, walk |-> NoWalk]
    ELSE [ok |-> made, keys |-> pushed, walk |-> NoWalk]

\* AddKey, its end: the pop_back on failure and the return
AddKeyResult(prep) ==
    /\ added' = prep.ok
    /\ keys' = IF prep.ok THEN prep.keys ELSE pop_back(prep.keys)
    /\ walk' = prep.walk

\* AddKey after its first test: reject is what the test found.  resolves:
\* whether Primitive::ResolveUnits succeeds on every primitive of the property
\* against the element.
AddKeyStep(time, property, tween, resolves, reject) ==
    /\ Len(keys) < MaxKeys
    /\ call' = Call("AddKey", time, property, tween, resolves, 0)
    /\ UNCHANGED <<config, playback, result, queries, pair, bracket>>
    /\ IF reject
       THEN /\ added' = FALSE
            /\ walk' = NoWalk
            /\ UNCHANGED keys
       ELSE AddKeyResult(AddKeyPushed(
                Append(keys, AnimationKey(time, TryMakeUnitValid(property.value).value,
                                          tween)),
                TryMakeUnitValid(property.value).ok, property.unit, resolves))

\* AddKey without the test of the unit
AddKeyIgnoringUnit(time, property, tween, resolves) ==
    AddKeyStep(time, property, tween, resolves, ~valid)

\* ElementAnimation::AddKey
AddKey(time, property, tween, resolves) ==
    AddKeyStep(time, property, tween, resolves, property.unit # property_unit \/ ~valid)

\* The index, from 0, of the first key from i on whose time is >= t; -1 if none
RECURSIVE FirstKeyAtOrAfter(_, _, _)
FirstKeyAtOrAfter(ks, t, i) ==
    IF i >= Len(ks) THEN -1
    ELSE IF ks[i + 1].time >= t THEN i
    ELSE FirstKeyAtOrAfter(ks, t, i + 1)

\* Math::Clamp(n/d, 0, 1), d > 0
Clamp01(n, d) == IF n < 0 THEN Zero ELSE IF n > d THEN One ELSE Rat(n, d)

\* current_iteration < num_iterations - 1 in the place of the test
MoreIterationsOneShort(iter) == iter < num_iterations - 1 \/ num_iterations = -1

\* MoreIterations with the comparison off by one
MoreIterationsOffByOne(iter) == iter <= num_iterations \/ num_iterations = -1

\* Whether, with current_iteration incremented to iter, another iteration runs
MoreIterations(iter) == iter < num_iterations \/ num_iterations = -1

\* time_since_iteration_start when an iteration ends, keeping what elapsed
\* beyond the duration
IterationStartCarried(elapsed, more) == IF more THEN elapsed - duration ELSE duration

\* time_since_iteration_start when an iteration ends after elapsed: 0 when
\* more iterations follow, else the duration
IterationStart(elapsed, more) == IF more THEN 0 ELSE duration

\* The upper bracket with key1 = 0 when no key time is >= t
UpperKeyFirst(ks, t) ==
    IF FirstKeyAtOrAfter(ks, t, 0) < 0 THEN 0 ELSE FirstKeyAtOrAfter(ks, t, 0)

\* The upper bracket of the local time t: an index into ks, from 0
UpperKey(ks, t) ==
    IF FirstKeyAtOrAfter(ks, t, 0) < 0 THEN Len(ks) - 1 ELSE FirstKeyAtOrAfter(ks, t, 0)

\* The lower bracket, given the upper one
LowerKey(key1) == IF key1 = 0 THEN 0 ELSE key1 - 1

\* UpdateAndGetProperty after its first test, but for the key sequence: skip
\* is what the test found.
UpdateCore(world_time, skip) ==
    /\ call' = Call("UpdateAndGetProperty", 0, EmptyProperty, "Linear", TRUE, world_time)
    /\ UNCHANGED <<config, added, pair, walk>>
    /\ IF skip
       THEN /\ result' = EmptyProperty
            /\ UNCHANGED <<playback, queries, bracket>>
       ELSE
         LET dt      == world_time - last_update_world_time
             elapsed == time_since_iteration_start + dt
             next    == elapsed >= duration
             iter    == IF next THEN current_iteration + 1 ELSE current_iteration
             more    == MoreIterations(iter)
             since   == IF next THEN IterationStart(elapsed, more) ELSE elapsed
             reverse == IF next /\ more /\ alternate_direction
                        THEN ~reverse_direction ELSE reverse_direction
             t       == IF reverse THEN duration - since ELSE since
             key1    == UpperKey(keys, t)
             key0    == LowerKey(key1)
             t0      == keys[key0 + 1].time
             t1      == keys[key1 + 1].time
             \* t1 - t0 > eps: eps is 1e-3, below one tick
             raw     == IF t1 - t0 > 0 THEN Clamp01(t - t0, t1 - t0) ELSE Zero
             alpha   == ApplyTween(keys[key1 + 1].tween, raw)
         IN  /\ last_update_world_time' = world_time
             /\ time_since_iteration_start' = since
             /\ current_iteration' = iter
             /\ reverse_direction' = reverse
             /\ animation_complete' = (next /\ ~more)
             /\ queries' = Append(queries, world_time)
             /\ bracket' = [t |-> t, key0 |-> key0, key1 |-> key1]
             /\ result' = MakeProperty(property_unit,
                              InterpolateValues(keys[key0 + 1].value,
                                                keys[key1 + 1].value, alpha))

\* UpdateAndGetProperty writing the interpolated value into the lower bracket
\* key, as interpolating the key's primitives by reference would
UpdateStepInPlace(world_time, skip) ==
    /\ UpdateCore(world_time, skip)
    /\ IF IsEmpty(result')
       THEN UNCHANGED keys
       ELSE keys' = [keys EXCEPT ![1].value = result'.value]

\* UpdateAndGetProperty after its first test: skip is what the test found.
\* The keys are read through const references and interpolated on copies.
UpdateStep(world_time, skip) ==
    /\ UpdateCore(world_time, skip)
    /\ UNCHANGED keys

\* UpdateAndGetProperty without the test of animation_complete
UpdateIgnoringComplete(world_time) ==
    UpdateStep(world_time, ~valid \/ world_time - last_update_world_time <= 0)

\* UpdateAndGetProperty without the test of valid
UpdateIgnoringValid(world_time) ==
    UpdateStep(world_time,
               animation_complete \/ world_time - last_update_world_time <= 0)

\* UpdateAndGetProperty without the test of the world time
UpdateIgnoringTime(world_time) ==
    UpdateStep(world_time, animation_complete \/ ~valid)

\* ElementAnimation::UpdateAndGetProperty
UpdateAndGetProperty(world_time) ==
    UpdateStep(world_time,
               animation_complete \/ ~valid \/ world_time - last_update_world_time <= 0)

----------------------------------------------------------------------------
(* Specification of a timeline of numbers and colours.  Property is an open *)
(* struct: the unit of a property does not determine the type of its value. *)

Durations  == {1, 2}
Iterations == {-1, 1, 2}
KeyTimes   == {1, 2}

\* The value the timeline is constructed with
InitialProperties ==
    { MakeProperty("NUMBER", FloatVariant(0, 1)),
      MakeProperty("NUMBER", StringVariant) }

\* The properties AddKey is called with
KeyProperties ==
    { MakeProperty("NUMBER", FloatVariant(10, 1)),
      MakeProperty("NUMBER", IntVariant(10)),
      MakeProperty("NUMBER", ColourVariant(255)),
      MakeProperty("NUMBER", StringVariant),
      MakeProperty("COLOUR", ColourVariant(255)) }

\* No transforms are handed to PrepareTransformPair on their own
NoPair == [in0 |-> <<>>, in1 |-> <<>>, t0 |-> <<>>, t1 |-> <<>>, results |-> <<>>]

Init ==
    /\ \E p \in InitialProperties, d \in Durations, n \in Iterations, a \in BOOLEAN :
           Construct(p, 0, d, n, a)
    /\ pair = NoPair

Next ==
    \/ \E time \in KeyTimes, p \in KeyProperties :
           AddKey(time, p, "Linear", TRUE)
    \/ \E world_time \in 0..MaxWorldTime :
           UpdateAndGetProperty(world_time)

Spec == Init /\ [][Next]_vars

----------------------------------------------------------------------------
(* Specification of a timeline of transforms *)

\* The transforms the timeline is constructed with and AddKey is called with.
\* A property of unit TRANSFORM always holds a TransformRef (AddKey
\* dereferences it unchecked), and every key refers to a Transform of its own.
InputTransforms ==
    LET sx == Primitive("ScaleX", "reg")
        s0 == Primitive("ScaleX", "sing")
        sy == Primitive("ScaleY", "reg")
        s3 == Primitive("Scale3D", "reg")
        tx == Primitive("TranslateX", "reg")
    IN  { <<>>, <<sx>>, <<s0>>, <<s3>>, <<tx>>, <<sx, tx>>, <<tx, sy>> }

InitT ==
    /\ \E t \in InputTransforms :
           Construct(MakeProperty("TRANSFORM", TransformVariant(t)), 0, 2, 1, FALSE)
    /\ pair = NoPair

NextT ==
    \/ \E t \in InputTransforms, resolves \in BOOLEAN :
           AddKey(Len(keys), MakeProperty("TRANSFORM", TransformVariant(t)),
                  "QuadraticIn", resolves)
    \/ \E world_time \in {1, 2} :
           UpdateAndGetProperty(world_time)

SpecT == InitT /\ [][NextT]_vars

----------------------------------------------------------------------------
(* Timelines whose keys come to differ in kind: a number timeline given a
   colour, and transform timelines on which an AddKey fails after it has
   changed an earlier key *)

MixedTransforms ==
    LET sx == Primitive("ScaleX", "reg")
        s0 == Primitive("ScaleX", "sing")
        sy == Primitive("ScaleY", "reg")
        tx == Primitive("TranslateX", "reg")
    IN  { <<s0>>, <<sx, tx>>, <<tx, sy>>, <<tx, s0, tx>>, <<tx, sy, sx>> }

MixedProperties ==
    { MakeProperty("NUMBER", FloatVariant(10, 1)),
      MakeProperty("NUMBER", ColourVariant(255)) }
        \cup { MakeProperty("TRANSFORM", TransformVariant(t)) : t \in MixedTransforms }

InitM ==
    /\ \E p \in MixedProperties : Construct(p, 0, 2, 1, FALSE)
    /\ pair = NoPair

NextM ==
    \/ \E p \in MixedProperties : AddKey(Len(keys), p, "QuadraticIn", TRUE)
    \/ \E world_time \in 1..2 : UpdateAndGetProperty(world_time)

SpecM == InitM /\ [][NextM]_vars

----------------------------------------------------------------------------
(* PrepareTransformPair on its own: two transforms drawn from the sequences
   of at most MaxPrims primitives, reconciled up to MaxRuns times in a row,
   next to a timeline that starts from the first and is given the second as
   its second key *)

PairPrimitives ==
    { Primitive("ScaleX", "reg"), Primitive("ScaleX", "sing"),
      Primitive("ScaleY", "reg"), Primitive("Scale3D", "reg"),
      Primitive("TranslateX", "reg") }

PairTransforms == UNION { [1..n -> PairPrimitives] : n \in 0..MaxPrims }

\* The pair after one more PrepareTransformPair, r being what it returned
Prepared(r) ==
    [pair EXCEPT !.t0 = r.t0, !.t1 = r.t1, !.results = Append(@, r.result)]

PreparePair ==
    /\ Len(pair.results) < MaxRuns
    /\ pair' = Prepared(PrepareTransformPair(pair.t0, pair.t1))
    /\ UNCHANGED <<config, playback, keys, call, added, result, queries, walk, bracket>>

InitP ==
    \E t0 \in PairTransforms, t1 \in PairTransforms :
        /\ Construct(MakeProperty("TRANSFORM", TransformVariant(t0)), 0, 2, 1, FALSE)
        /\ pair = [in0 |-> t0, in1 |-> t1, t0 |-> t0, t1 |-> t1, results |-> <<>>]

NextP ==
    \/ PreparePair
    \/ /\ Len(keys) = 1
       /\ AddKey(1, MakeProperty("TRANSFORM", TransformVariant(pair.in1)), "Linear", TRUE)

SpecP == InitP /\ [][NextP]_vars

----------------------------------------------------------------------------
(* Playback claims, under Spec *)

Updated == call.op = "UpdateAndGetProperty"

\* C1: once animation_complete is set, every later step leaves the playback
\* state (last_update_world_time, time_since_iteration_start,
\* current_iteration, reverse_direction, animation_complete) as it is, and
\* every later UpdateAndGetProperty, for any world_time, returns an empty
\* Property.
C1_CompletedIsFrozen ==
    [][animation_complete =>
          /\ UNCHANGED playback
          /\ call'.op = "UpdateAndGetProperty" => result' = EmptyProperty]_vars

\* C1: a completed timeline was queried again, at a later world time
C1_Witness ==
    /\ animation_complete
    /\ Updated
    /\ call.world_time > last_update_world_time
    /\ IsEmpty(result)

\* The scenario of C4: one iteration is 1.0, two iterations, alternating, keys
\* 0 at time 0 and 10 at time 1.0, linear; q the world times, in ticks after
\* the start, of the effective updates so far, the last of which was the last
\* call and returned a value.
C4_Scenario(q) ==
    /\ valid /\ duration = 2 /\ num_iterations = 2 /\ alternate_direction
    /\ keys = << AnimationKey(0, FloatVariant(0, 1), "Linear"),
                 AnimationKey(2, FloatVariant(10, 1), "Linear") >>
    /\ queries = q
    /\ Updated /\ call.world_time = q[Len(q)] /\ ~IsEmpty(result)

\* C4: in the scenario the updates at start + 0.5, start + 1.5 and start + 2.0
\* return 5, then 5 with reverse_direction set, then 0 with the timeline
\* complete.
C4_TimingScenario ==
    /\ C4_Scenario(<<1>>) => result.value = FloatVariant(5, 1)
    /\ C4_Scenario(<<1, 3>>) => result.value = FloatVariant(5, 1) /\ reverse_direction
    /\ C4_Scenario(<<1, 3, 4>>) => result.value = FloatVariant(0, 1) /\ animation_complete

\* C5: an effective update whose elapsed time reaches duration increments
\* current_iteration; then, if that is below num_iterations or num_iterations
\* is -1, the elapsed time is 0, reverse_direction is flipped exactly when
\* alternate_direction is set and the timeline is not complete; otherwise the
\* timeline is complete with the elapsed time equal to duration,
\* reverse_direction as it was and a non-empty result.  A timeline with
\* num_iterations = -1 is never complete.
C5_IterationStep ==
    /\ [][(/\ call'.op = "UpdateAndGetProperty"
           /\ valid /\ ~animation_complete
           /\ call'.world_time > last_update_world_time
           /\ time_since_iteration_start + (call'.world_time - last_update_world_time)
                  >= duration)
          => /\ current_iteration' = current_iteration + 1
             /\ IF current_iteration' < num_iterations \/ num_iterations = -1
                THEN /\ time_since_iteration_start' = 0
                     /\ reverse_direction' = (reverse_direction # alternate_direction)
                     /\ ~animation_complete'
                ELSE /\ animation_complete'
                     /\ time_since_iteration_start' = duration
                     /\ reverse_direction' = reverse_direction
                     /\ ~IsEmpty(result')]_vars
    /\ [](num_iterations = -1 => ~animation_complete)

\* C5: the timeline alternated once and then completed, in the completing call
C5_Witness ==
    /\ animation_complete /\ Updated /\ ~IsEmpty(result)
    /\ current_iteration = 2 /\ reverse_direction
    /\ time_since_iteration_start = duration

\* C6: UpdateAndGetProperty(world_time) with world_time not greater than
\* last_update_world_time returns an empty Property and changes no playback
\* state; last_update_world_time never decreases.
C6_StaleQueryIsNoOp ==
    [][/\ (call'.op = "UpdateAndGetProperty"
             /\ call'.world_time <= last_update_world_time)
          => (result' = EmptyProperty /\ UNCHANGED playback)
       /\ last_update_world_time' >= last_update_world_time]_vars

\* C6: a backward query of a valid, running timeline that had advanced
C6_Witness ==
    /\ valid /\ ~animation_complete /\ Updated
    /\ last_update_world_time > 0
    /\ call.world_time < last_update_world_time
    /\ IsEmpty(result)

\* C10: no step changes valid, and on an invalid timeline every
\* UpdateAndGetProperty returns an empty Property and no step changes the
\* playback state.
C10_ValidityIsPermanent ==
    [][/\ valid' = valid
       /\ ~valid => /\ UNCHANGED playback
                    /\ call'.op = "UpdateAndGetProperty" => result' = EmptyProperty]_vars

\* C10: a timeline constructed invalid was queried at a world time after its start
C10_Witness ==
    /\ ~valid /\ Updated
    /\ call.world_time > last_update_world_time
    /\ IsEmpty(result) /\ ~animation_complete

----------------------------------------------------------------------------
(* Key sequence claims *)

Added == call.op = "AddKey"

\* C7: AddKey with a property of another unit than the timeline's, or on an
\* invalid timeline, returns false and changes no state.
C7_RejectedAddKey ==
    [][(call'.op = "AddKey" /\ (call'.property.unit # property_unit \/ ~valid))
          => (~added' /\ UNCHANGED <<keys, config, playback>>)]_vars

\* C7: a property of another unit was refused by a valid timeline that has
\* accepted a key before
C7_Witness ==
    /\ Added /\ valid /\ call.property.unit # property_unit
    /\ ~added /\ Len(keys) = 2

\* C8: the key times are non-decreasing in sequence order.
C8_KeyTimesSorted ==
    \A i \in 2..Len(keys) : keys[i - 1].time <= keys[i].time

\* C9: all keys of a valid timeline hold values of the same type.
C9_KeysOfOneKind ==
    valid => \A i \in 1..Len(keys) : keys[i].value.type = keys[1].value.type

\* Two primitive sequences of the same length and the same kind at every position
SameKinds(p0, p1) ==
    /\ Len(p0) = Len(p1)
    /\ \A i \in 1..Len(p0) : p0[i].kind = p1[i].kind

\* C2: an AddKey that returns false leaves the key sequence as it was before
\* the call.
C2_FailedAddKeyRolledBack ==
    [][(call'.op = "AddKey" /\ ~added') => keys' = keys]_vars

\* C3: after an AddKey that returned true on a transform timeline, every two
\* adjacent keys have primitive sequences of the same length and the same
\* kind at every position.
C3_AdjacentKeysReconciled ==
    (Added /\ added /\ property_unit = "TRANSFORM")
        => \A i \in 2..Len(keys) :
               SameKinds(keys[i - 1].value.prims, keys[i].value.prims)

----------------------------------------------------------------------------
(* Brackets and playback bounds *)

\* The step is an UpdateAndGetProperty that passed its first test
Effective == call'.op = "UpdateAndGetProperty" /\ queries' # queries

\* C14: an effective update takes for upper bracket the key of lowest index
\* whose time is >= the local time t, or the last key when there is none,
\* and for lower bracket the key before it, or key 0 itself when the upper
\* bracket is key 0; t is the time since the iteration start, mirrored in
\* the duration when the direction is reversed.
C14_BracketSelection ==
    [][Effective =>
          /\ bracket'.t = IF reverse_direction'
                          THEN duration - time_since_iteration_start'
                          ELSE time_since_iteration_start'
          /\ IF \E i \in 1..Len(keys) : keys[i].time >= bracket'.t
             THEN /\ keys[bracket'.key1 + 1].time >= bracket'.t
                  /\ \A i \in 1..bracket'.key1 : keys[i].time < bracket'.t
             ELSE bracket'.key1 = Len(keys) - 1
          /\ bracket'.key0 = IF bracket'.key1 = 0 THEN 0 ELSE bracket'.key1 - 1
          /\ result'.value = InterpolateValues(
                 keys[bracket'.key0 + 1].value, keys[bracket'.key1 + 1].value,
                 ApplyTween(keys[bracket'.key1 + 1].tween,
                     IF keys[bracket'.key1 + 1].time - keys[bracket'.key0 + 1].time > 0
                     THEN Clamp01(bracket'.t - keys[bracket'.key0 + 1].time,
                                  keys[bracket'.key1 + 1].time
                                      - keys[bracket'.key0 + 1].time)
                     ELSE Zero))]_vars

\* C14: with three keys, a local time beyond every key time took the last
\* two keys for brackets
C14_Witness ==
    /\ Updated /\ queries # <<>> /\ Len(keys) = 3
    /\ \A i \in 1..3 : keys[i].time < bracket.t
    /\ bracket.key1 = 2 /\ bracket.key0 = 1

\* Two values InterpolateValues cannot interpolate between: of two types, or
\* transforms that differ in length or in the kind at some position
Inconsistent(v0, v1) ==
    \/ v0.type # v1.type
    \/ v0.type = "TRANSFORMREF" /\ ~SameKinds(v0.prims, v1.prims)

\* C16: an effective update whose bracket values are of two types, or are
\* transforms differing in length or in the kind at some position, returns
\* a non-empty Property whose value is the lower bracket key's value.
C16_InconsistentKeysGiveLower ==
    [][(Effective /\ Inconsistent(keys[bracket'.key0 + 1].value,
                                  keys[bracket'.key1 + 1].value))
          => /\ ~IsEmpty(result')
             /\ result' = MakeProperty(property_unit, keys[bracket'.key0 + 1].value)]_vars

\* C16: two transforms of the same length that agree in kind at the first
\* position and differ at the second were the brackets of an update, which
\* returned the lower one
C16_Witness ==
    /\ Updated /\ queries # <<>> /\ bracket.key0 # bracket.key1
    /\ result.value.type = "TRANSFORMREF"
    /\ Len(keys[bracket.key0 + 1].value.prims) = Len(keys[bracket.key1 + 1].value.prims)
    /\ Len(result.value.prims) = 3
    /\ keys[bracket.key0 + 1].value.prims[1].kind = keys[bracket.key1 + 1].value.prims[1].kind
    /\ keys[bracket.key0 + 1].value.prims[2].kind # keys[bracket.key1 + 1].value.prims[2].kind
    /\ result.value = keys[bracket.key0 + 1].value

\* C17: the key sequence always holds the initial key, of time 0, and the
\* brackets of an update are indices of keys, the lower not above the upper.
C17_BracketsAreKeys ==
    /\ Len(keys) >= 1
    /\ keys[1].time = 0
    /\ 0 <= bracket.key0
    /\ bracket.key0 <= bracket.key1
    /\ bracket.key1 < Len(keys)

\* C17: an AddKey was refused after its key was pushed, on a timeline of two
\* keys that an update had bracketed
C17_Witness ==
    /\ Added /\ ~added /\ valid /\ call.property.unit = property_unit
    /\ Len(keys) = 2 /\ bracket.key0 = 0 /\ bracket.key1 = 1

\* C18: on a timeline of positive duration time_since_iteration_start and
\* the local time t stay within 0 and the duration, time_since_iteration_start
\* is the duration only on a completed timeline, and an update that ends an
\* iteration with more to follow restarts from 0 whatever the overshoot.
C18_ElapsedWithinDuration ==
    /\ [](duration > 0 =>
             /\ 0 <= time_since_iteration_start
             /\ time_since_iteration_start <= duration
             /\ time_since_iteration_start = duration => animation_complete
             /\ 0 <= bracket.t /\ bracket.t <= duration)
    /\ [][(Effective /\ duration > 0 /\ ~animation_complete'
            /\ time_since_iteration_start + (call'.world_time - last_update_world_time)
                   >= duration)
              => time_since_iteration_start' = 0]_vars

\* C18: an update overshot the end of an iteration by more than a whole
\* duration and the next iteration started from 0
C18_Witness ==
    /\ Updated /\ Len(queries) = 1 /\ duration = 1 /\ call.world_time = 3
    /\ current_iteration = 1 /\ ~animation_complete
    /\ time_since_iteration_start = 0

\* C19: no step advances current_iteration by more than one; an update
\* advances it exactly when the elapsed time reaches the duration; and a
\* timeline of N >= 1 iterations is completed exactly when current_iteration
\* is N, which it never exceeds.
C19_OneIterationPerUpdate ==
    /\ [][/\ current_iteration' \in {current_iteration, current_iteration + 1}
          /\ Effective =>
                (current_iteration' = current_iteration + 1
                    <=> time_since_iteration_start
                           + (call'.world_time - last_update_world_time) >= duration)]_vars
    /\ [](num_iterations >= 1 =>
             /\ current_iteration <= num_iterations
             /\ animation_complete <=> current_iteration = num_iterations)

\* C19: a timeline of two iterations completed on its second update that
\* reached the duration, after an update that did not
C19_Witness ==
    /\ Updated /\ num_iterations = 2 /\ animation_complete
    /\ current_iteration = 2 /\ Len(queries) = 3

\* C20: no UpdateAndGetProperty changes the key sequence.
C20_UpdateKeepsKeys ==
    [][call'.op = "UpdateAndGetProperty" => keys' = keys]_vars

\* C20: an update interpolated between two reconciled transform keys and
\* returned another transform than the one of its lower bracket
C20_Witness ==
    /\ Updated /\ queries # <<>> /\ Len(keys) >= 2
    /\ bracket.key0 # bracket.key1
    /\ result.value.type = "TRANSFORMREF"
    /\ SameKinds(result.value.prims, keys[bracket.key0 + 1].value.prims)
    /\ result.value # keys[bracket.key0 + 1].value

----------------------------------------------------------------------------
(* Reconciliation of one pair of transforms *)

\* PrepareTransformPair ran once on the pair in0, in1
PreparedOnce == Len(pair.results) = 1

SmallIn  == IF Len(pair.in0) < Len(pair.in1) THEN pair.in0 ELSE pair.in1
BigIn    == IF Len(pair.in0) < Len(pair.in1) THEN pair.in1 ELSE pair.in0
SmallOut == IF Len(pair.in0) < Len(pair.in1) THEN pair.t0 ELSE pair.t1
BigOut   == IF Len(pair.in0) < Len(pair.in1) THEN pair.t1 ELSE pair.t0
OnlySmallChanged == IF Len(pair.in0) < Len(pair.in1) THEN ChangedT0 ELSE ChangedT1

RECURSIVE FirstOfKind(_, _, _)
\* The position in big, from from on, of the first primitive of kind kind,
\* 0 when there is none
FirstOfKind(big, kind, from) ==
    IF from > Len(big) THEN 0
    ELSE IF big[from].kind = kind THEN from
    ELSE FirstOfKind(big, kind, from + 1)

RECURSIVE GreedyExact(_, _, _, _, _)
\* The greedy left-to-right match of the kinds of small in big, by exact
\* kinds: the matched positions, or <<0>> when some primitive has no match
GreedyExact(small, big, i, from, matched) ==
    IF i > Len(small) THEN matched
    ELSE IF FirstOfKind(big, small[i].kind, from) = 0 THEN <<0>>
    ELSE GreedyExact(small, big, i + 1, FirstOfKind(big, small[i].kind, from) + 1,
                     Append(matched, FirstOfKind(big, small[i].kind, from)))

ExactMatch == GreedyExact(SmallIn, BigIn, 1, 1, <<>>)

IsSubsequence == Len(pair.in0) # Len(pair.in1) /\ ExactMatch # <<0>>

\* Two primitive kinds the scan of the longer sequence takes for a match
Compatible(k0, k1) ==
    k0 = k1 \/ (GetGenericType(k0) = GetGenericType(k1) /\ GetGenericType(k0) # "None")

\* Between two matched positions (and before the first) no primitive of the
\* longer sequence is compatible with the primitive matched next
NoEarlierCompatible ==
    \A i \in 1..Len(ExactMatch) :
        \A j \in (IF i = 1 THEN 1 ELSE ExactMatch[i - 1] + 1)..(ExactMatch[i] - 1) :
            ~Compatible(SmallIn[i].kind, BigIn[j].kind)

\* The outcome the alignment is to have: the longer sequence as it was, the
\* shorter one equal to it in length and kinds, its own primitives at the
\* matched positions and identity primitives elsewhere, only it reported
Aligned ==
    /\ BigOut = BigIn
    /\ SameKinds(SmallOut, BigIn)
    /\ \A i \in 1..Len(ExactMatch) : SmallOut[ExactMatch[i]] = SmallIn[i]
    /\ \A j \in 1..Len(SmallOut) :
           (\A i \in 1..Len(ExactMatch) : ExactMatch[i] # j)
               => SmallOut[j] = Primitive(BigIn[j].kind, "id")
    /\ pair.results[1] = OnlySmallChanged

C13_ReconciliationIdempotent ==
    /\ (PreparedOnce /\ SameKinds(pair.in0, pair.in1))
           => (pair.results[1] = Unchanged /\ pair.t0 = pair.in0 /\ pair.t1 = pair.in1)
    /\ \A k \in 2..Len(pair.results) :
           pair.results[k - 1] # Invalid
               => (pair.results[k] = Unchanged /\ SameKinds(pair.t0, pair.t1))

\* C13: a pair of different lengths that the first run changed on both sides
\* was run a second time
C13_Witness ==
    /\ Len(pair.results) = 2 /\ Len(pair.in0) # Len(pair.in1)
    /\ pair.results[1] = ChangedT0andT1 /\ pair.results[2] = Unchanged

RECURSIVE FirstCompatible(_, _, _)
\* The position in big, from from on, of the first primitive compatible with
\* kind, 0 when there is none
FirstCompatible(big, kind, from) ==
    IF from > Len(big) THEN 0
    ELSE IF Compatible(kind, big[from].kind) THEN from
    ELSE FirstCompatible(big, kind, from + 1)

RECURSIVE Alignable(_, _, _, _)
\* The primitives of small from the i-th on have compatible primitives in
\* big, in order, from position from on
Alignable(small, big, i, from) ==
    IF i > Len(small) THEN TRUE
    ELSE IF FirstCompatible(big, small[i].kind, from) = 0 THEN FALSE
    ELSE Alignable(small, big, i + 1, FirstCompatible(big, small[i].kind, from) + 1)

\* The pair in0, in1 can be matched position by position or by alignment
Matchable ==
    IF Len(pair.in0) = Len(pair.in1)
    THEN \A i \in 1..Len(pair.in0) : Compatible(pair.in0[i].kind, pair.in1[i].kind)
    ELSE Alignable(SmallIn, BigIn, 1, 1)

\* One primitive of the decomposed kind
IsDecomposed(t) == Len(t) = 1 /\ t[1].kind = "DecomposedMatrix4"

\* Both decompositions succeed
BothDecompose == Decompose(pair.in0) /\ Decompose(pair.in1)

\* C15: on a pair that can be matched neither position by position nor by
\* alignment, PrepareTransformPair leaves one decomposed primitive in each
\* sequence and returns ChangedT0andT1 when both decompositions succeed;
\* otherwise it returns Invalid and the AddKey of the second transform to
\* a timeline that holds the first returns false.
C15_DecompositionFallback ==
    ~Matchable =>
        /\ (PreparedOnce /\ BothDecompose)
               => /\ IsDecomposed(pair.t0) /\ IsDecomposed(pair.t1)
                  /\ pair.results[1] = ChangedT0andT1
        /\ (PreparedOnce /\ ~BothDecompose) => pair.results[1] = Invalid
        /\ (Added /\ ~BothDecompose) => ~added
        /\ (Added /\ BothDecompose)
               => /\ added
                  /\ \A i \in 1..2 : IsDecomposed(keys[i].value.prims)

\* C15: the second decomposition failed after the first succeeded, and the
\* AddKey of the same pair was refused
C15_Witness ==
    /\ ~Matchable /\ Decompose(pair.in0) /\ ~Decompose(pair.in1)
    /\ PreparedOnce /\ pair.results[1] = Invalid
    /\ Added /\ ~added

----------------------------------------------------------------------------
(* The walk over the key chain *)

\* The last step was an AddKey that called PrepareTransforms
Walked == Added /\ walk.size > 0

====
